---- MODULE Spec2Model ----
(***************************************************************************)
(* Model of bot.py: the scan-and-dispatch pass (scan_feed_job) with the    *)
(* feed fetch, the keyword match, the summary cache and its rate limiter,  *)
(* the subscription commands that run beside it, and the two tables (subs, *)
(* sent) it reads and writes.                                              *)
(*                                                                         *)
(* A text is a sequence of one-character strings.  Instants (the feed's    *)
(* timestamps, the watermarks, the readings of the clock) are integers of  *)
(* which only the order matters; a reading of the clock is later than      *)
(* every reading before it.  Durations (sleeps, the ages of the entries of *)
(* the rate limiter's history) are in whole seconds.  A stored last_seen   *)
(* text is kept as the three parts that decide how isoparse reads it: the  *)
(* instant, whether a "+00:00" offset is written, and whether a trailing   *)
(* "Z" is written.                                                         *)
(***************************************************************************)
EXTENDS Integers, Sequences, FiniteSets, TLC

\* ------------------------------------------------------------- constants
MAX_SUBS == 5
HTTP_RETRIES == 3
HTTP_BACKOFF == 2
OPENAI_RETRIES == 3
\* The ceiling of the rate limiter; bot.py sets 60.  The model keeps the
\* ceiling small so that a window fills within the bounded runs.
OPENAI_LIMIT == 3
\* rate_limit: entries older than WINDOW seconds leave the history, and a
\* suspended caller sleeps SLEEP_BASE minus the age of the oldest entry.
WINDOW == 60
SLEEP_BASE == 61
\* summarise: the content key is taken from the first SN_LEN characters.
SN_LEN == 1500
\* The longest message send_message is given; bot.py sets 4096.  The model
\* keeps it small so that messages of a few characters are cut.
MSG_MAX == 3

\* ---------------------------------------------------------------- bounds
NInv == 2          \* invocations of scan_feed_job the timer may have started
MaxPasses == 2     \* passes that get past the entry guard
MaxSkips == 1      \* triggers that arrive while a pass is running
MaxCmds == 1       \* command handlers run
MaxFaults == 3     \* failures of the feed, the summary service and the send
MaxMsg == 8        \* characters of a message handed to split_html
MaxSum == 3        \* summarise calls of the summarise specification
MaxReq == 7        \* admission requests of the rate-limiter specification

Inv == 1..NInv
Chats == {1, 2}
None == "None"

\* --------------------------------------------------------------- texts
UpperCase == <<"A","B","C","D","E","F","G","H","I","J","K","L","M",
               "N","O","P","Q","R","S","T","U","V","W","X","Y","Z">>
LowerCase == <<"a","b","c","d","e","f","g","h","i","j","k","l","m",
               "n","o","p","q","r","s","t","u","v","w","x","y","z">>
Digits == {"0","1","2","3","4","5","6","7","8","9"}
Range(s) == {s[n] : n \in DOMAIN s}

\* re.IGNORECASE on ASCII letters: compare the lower-case forms.
Lower(c) ==
  IF \E n \in 1..26 : UpperCase[n] = c
  THEN LowerCase[CHOOSE n \in 1..26 : UpperCase[n] = c]
  ELSE c

\* The class [A-Za-z0-9_] of BOUND's lookbehind and lookahead.
IsWordChar(c) == c \in Range(UpperCase) \cup Range(LowerCase) \cup Digits \cup {"_"}

\* BOUND(k).search(txt) with the pattern anchored at position p.
MatchAt(txt, kw, p) ==
  LET q == p + Len(kw) IN
  IF q - 1 > Len(txt) THEN FALSE
  ELSE /\ \A n \in 1..Len(kw) : Lower(txt[p + n - 1]) = Lower(kw[n])
       /\ IF p = 1 THEN TRUE ELSE ~IsWordChar(txt[p - 1])
       /\ IF q - 1 = Len(txt) THEN TRUE ELSE ~IsWordChar(txt[q])

kw_match(txt, kw) == \E p \in 1..Len(txt) : MatchAt(txt, kw, p)

\* str.strip(): leading and trailing whitespace removed.
IsSpace(c) == c \in {" ", "\n", "\t"}
RECURSIVE LStrip(_)
LStrip(s) == IF s # <<>> /\ IsSpace(Head(s)) THEN LStrip(Tail(s)) ELSE s
RECURSIVE RStrip(_)
RStrip(s) ==
  IF s # <<>> /\ IsSpace(s[Len(s)]) THEN RStrip(SubSeq(s, 1, Len(s) - 1)) ELSE s
Strip(s) == RStrip(LStrip(s))

\* summarise line 104: sn = raw.strip()[:1500]; cache_p(sn) names the cache
\* file by sha256(sn), which the model takes as sn itself.
SnOf(raw) ==
  LET t == Strip(raw) IN SubSeq(t, 1, IF Len(t) < SN_LEN THEN Len(t) ELSE SN_LEN)

\* ------------------------------------------------------------ the feed
KwRoad == <<"r","o","a","d">>
KwRail == <<"r","a","i","l">>

TxtRoadRail == <<"R","o","a","d"," ","a","n","d"," ","r","a","i","l">>
TxtRoadworks == <<"r","o","a","d","w","o","r","k","s">>
TxtRailOnly == <<" ","R","A","I","L",".","\n">>
TxtRoadOnly == <<"n","e","w","-","r","o","a","d","!">>
TxtPlain == <<"t","e","a">>

\* A timestamp field of a feed item: absent (None), a text dateutil cannot
\* parse, or a text that parses to the instant t.
TsNone == [kind |-> "none", t |-> 0]
TsBad == [kind |-> "bad", t |-> 0]
TsAt(t) == [kind |-> "at", t |-> t]

\* What feedparser hands over for one item (e.get(...) of lines 91-93).
RawEntry(id, title, link, summary, published, updated) ==
  [id |-> id, title |-> title, link |-> link, summary |-> summary,
   published |-> published, updated |-> updated]

RawA == RawEntry("tA", TxtRoadRail, "urlA", TxtRailOnly, TsNone, TsAt(7))
RawB == RawEntry("tB", TxtRoadworks, "urlB", TxtRoadOnly, TsAt(3), TsNone)
RawC == RawEntry("tC", TxtRailOnly, "urlC", TxtPlain, TsBad, TsNone)
RawD == RawEntry("tD", TxtRoadOnly, None, TxtPlain, TsNone, TsAt(4))
RawE == RawEntry(None, TxtPlain, "urlE", TxtRoadRail, TsAt(-1), TsNone)
RawF == RawEntry("tF", TxtRoadRail, "urlF", TxtPlain, TsNone, TsNone)

\* The feed contents a fetch may return.
Feeds == << <<RawA, RawB>>, <<RawE, RawC, RawF, RawD, RawA>> >>

\* fetch_feed lines 91-93: the normalised entry.
Normalise(e) ==
  [id |-> IF e.id # None THEN e.id ELSE e.link,
   title |-> Strip(e.title), link |-> e.link, summary |-> e.summary,
   published |-> e.published, updated |-> e.updated]

ParseFeed(f) == [n \in DOMAIN Feeds[f] |-> Normalise(Feeds[f][n])]

\* ------------------------------------------------------------ the state
VARIABLES
  subs,       \* table subs in rowid order: rows [cid, kw, last]
  sent,       \* table sent: the set of <<chat_id, tender_id>>
  cache,      \* the cache directory: content key -> stored text
  calls,      \* _openai_calls, each entry as its age now - entry
  clock,      \* the instant the next datetime.now(UTC) of line 191 reads
  running,    \* ctx.job.data["running"]
  pc,         \* where each invocation of scan_feed_job stands
  att,        \* fetch_feed: att
  feed,       \* which feed content the fetch returned (0: none yet)
  sentL,      \* scan_feed_job: sent (read once, line 182)
  subsL,      \* scan_feed_job: subs (read once, line 183)
  si, ei,     \* positions of the two loops
  threshold,  \* scan_feed_job: threshold
  edt,        \* scan_feed_job: edt
  sat,        \* summarise: at
  failed,     \* history: whether a delivery of this pass has failed
  delivered,  \* history: <<chat, id>> -> number of send_split calls that returned
  last,       \* history: the pass that last read the tables
  touched,    \* history: keys a command added or removed during the pass
  exh,        \* history: the fetch of the last pass failed on every attempt
  snap,       \* history: the stores as they were when that pass began
  reqlog,     \* history: the rate_limit calls, [gap, delay]
  proc,       \* history: ages of the calls that went on past rate_limit
  skips,      \* history: triggers that found the guard set
  sumlog,     \* history: the summarise calls made on their own
  regex_cache, \* _regex_cache: keyword -> compiled pattern
  mcall,      \* history: the last kw_match call made on its own
  smsg,       \* split_html: the message handed in
  stxt,       \* split_html: txt, what is left to cut
  sparts,     \* split_html: parts
  spc,        \* where the split_html call stands
  passes, cmds, faults   \* counters that bound the runs

vars == <<subs, sent, cache, calls, clock, running, pc, att, feed, sentL, subsL,
          si, ei, threshold, edt, sat, failed, delivered, last, touched, exh,
          snap, reqlog, proc, skips, sumlog, regex_cache, mcall, smsg, stxt,
          sparts, spc, passes, cmds, faults>>

locals == <<att, feed, sentL, subsL, si, ei, threshold, edt, sat, failed>>
tables == <<subs, sent, cache, delivered>>
hist == <<last, touched, exh, skips>>
rlhist == <<reqlog, proc>>
units == <<sumlog, regex_cache, mcall, smsg, stxt, sparts, spc>>

\* ------------------------------------------------------- stored watermark
\* cmd_subscribe line 151 stores "1970-01-01T00:00:00Z".
EpochText == [t |-> 0, off |-> FALSE, z |-> TRUE]

\* scan_feed_job line 201: edt.isoformat(timespec="seconds")+"Z".  edt is
\* aware and in UTC (astimezone(UTC), datetime.now(UTC)), so isoformat
\* writes its offset "+00:00", and the "Z" follows it.
FormatWatermark(t) == [t |-> t, off |-> TRUE, z |-> TRUE]

\* dateutil's isoparse: a time-zone part is "Z" alone or a signed offset;
\* "+00:00Z" is neither and raises ValueError.
IsoParseFails(w) == w.off /\ w.z
IsoParse(w) == w.t

Key(r) == <<r.cid, r.kw>>
KeysOf(rows) == {Key(rows[n]) : n \in DOMAIN rows}
RowOf(rows, k) == rows[CHOOSE n \in DOMAIN rows : Key(rows[n]) = k]

RECURSIVE SelectRows(_, _)
SelectRows(rows, keep) ==
  IF rows = <<>> THEN <<>>
  ELSE IF Key(Head(rows)) \in keep
       THEN <<Head(rows)>> \o SelectRows(Tail(rows), keep)
       ELSE SelectRows(Tail(rows), keep)

\* ------------------------------------------------------------- history
NoPass == [feed |-> 0, keys |-> {}, clean |-> FALSE, end |-> "none"]
\* No kw_match call made yet.
NoCall == [txt |-> <<>>, kw |-> <<>>, res |-> FALSE, hit |-> FALSE]
NoSnap == [subs |-> <<>>, sent |-> {}, cache |-> <<>>, calls |-> <<>>,
           delivered |-> <<>>]

EntryIds == UNION {{ParseFeed(f)[n].id : n \in DOMAIN Feeds[f]} : f \in DOMAIN Feeds}
Pairs == Chats \X EntryIds

\* Tables a run may start from: the rows earlier cmd_subscribe calls left
\* (a new row holds the epoch text), and the dedup rows earlier passes left.
NewRow(cid, kw) == [cid |-> cid, kw |-> kw, last |-> EpochText]
InitTables ==
  { [subs |-> <<>>, sent |-> {}],
    [subs |-> <<NewRow(1, KwRoad), NewRow(1, KwRail)>>, sent |-> {}],
    [subs |-> <<NewRow(1, KwRail), NewRow(2, KwRoad)>>, sent |-> {<<1, "tA">>}] }

InitLocals ==
  /\ pc = [i \in Inv |-> "idle"]
  /\ att = [i \in Inv |-> 0]
  /\ feed = [i \in Inv |-> 0]
  /\ sentL = [i \in Inv |-> {}]
  /\ subsL = [i \in Inv |-> <<>>]
  /\ si = [i \in Inv |-> 0]
  /\ ei = [i \in Inv |-> 0]
  /\ threshold = [i \in Inv |-> 0]
  /\ edt = [i \in Inv |-> 0]
  /\ sat = [i \in Inv |-> 0]
  /\ failed = [i \in Inv |-> FALSE]

Init ==
  /\ \E t \in InitTables : subs = t.subs /\ sent = t.sent
  /\ cache = <<>> /\ calls = <<>>
  /\ clock = 10
  /\ running = FALSE
  /\ InitLocals
  /\ delivered = [p \in Pairs |-> IF p \in sent THEN 1 ELSE 0]
  /\ last = NoPass /\ touched = {} /\ exh = FALSE /\ snap = NoSnap
  /\ reqlog = <<>> /\ proc = <<>>
  /\ sumlog = <<>> /\ regex_cache = <<>> /\ mcall = NoCall
  /\ smsg = <<>> /\ stxt = <<>> /\ sparts = <<>> /\ spc = "in"
  /\ skips = 0 /\ passes = 0 /\ cmds = 0 /\ faults = 0

\* ------------------------------------------------------------- helpers
Set(f, i, v) == [f EXCEPT ![i] = v]
Put(f, k, v) == [x \in DOMAIN f \cup {k} |-> IF x = k THEN v ELSE f[x]]
Min(a, b) == IF a < b THEN a ELSE b

Entries(i) == ParseFeed(feed[i])
Row(i) == subsL[i][si[i]]
Entry(i) == Entries(i)[ei[i]]

\* An age beyond the window is out of it whatever it is: keep WINDOW + 1.
AgeCap == WINDOW + 1
Aged(h, d) == [n \in DOMAIN h |-> Min(h[n] + d, AgeCap)]

\* d seconds pass: every entry of the history is d seconds older.
Elapse(d) ==
  /\ calls' = Aged(calls, d)
  /\ snap' = [snap EXCEPT !.calls = Aged(@, d)]

\* The stores as a pass finds them when it gets past the guard.
TakeSnap == [subs |-> subs, sent |-> sent, cache |-> cache, calls |-> calls,
             delivered |-> delivered]

\* What the history keeps of a pass that read the tables.
PassRecord(i, how) ==
  [feed |-> feed[i], keys |-> KeysOf(subsL[i]), clean |-> ~failed[i], end |-> how]

\* Lines 203-204, and the locals of the invocation going out of scope.
Return(i) ==
  /\ running' = FALSE
  /\ pc' = Set(pc, i, "idle")
  /\ att' = Set(att, i, 0) /\ feed' = Set(feed, i, 0)
  /\ sentL' = Set(sentL, i, {}) /\ subsL' = Set(subsL, i, <<>>)
  /\ si' = Set(si, i, 0) /\ ei' = Set(ei, i, 0)
  /\ threshold' = Set(threshold, i, 0) /\ edt' = Set(edt, i, 0)
  /\ sat' = Set(sat, i, 0) /\ failed' = Set(failed, i, FALSE)
  /\ touched' = {}

\* An error that leaves scan_feed_job after the tables were read.
Raise(i) ==
  /\ Return(i)
  /\ last' = PassRecord(i, "error")
  /\ UNCHANGED <<tables, calls, clock, exh, snap, rlhist, units, skips, passes, cmds, faults>>

\* --------------------------------------------------------- scheduling
\* One event loop runs the job and the handlers: another coroutine starts
\* only where the running one awaits something that is not ready (the
\* feed request, the summary request, a sleep, send_message).  db_exec
\* and db_query await only the lock, which is free, and do not yield.
AwaitPcs == {"idle", "fetch", "svc", "send"}
AtAwait == \A i \in Inv : pc[i] \in AwaitPcs

\* ------------------------------------------------ scan_feed_job: entry
\* Lines 178-179: the guard is read and set with no await in between.
\* (The timer's invocations are told apart only by the slot they take.)
Trigger(i) ==
  /\ pc[i] = "idle" /\ ~running /\ passes < MaxPasses
  /\ AtAwait
  /\ \A j \in Inv : j < i => pc[j] # "idle"
  /\ running' = TRUE
  /\ pc' = Set(pc, i, "fetch")
  /\ att' = Set(att, i, 1)
  /\ passes' = passes + 1
  /\ snap' = TakeSnap /\ exh' = FALSE /\ touched' = {}
  /\ UNCHANGED <<tables, calls, clock, feed, sentL, subsL, si, ei, threshold,
                 edt, sat, failed, last, rlhist, units, skips, cmds, faults>>

\* A variant in which the guard is tested inside the try, so that the
\* finally of a skipped trigger clears the guard of the running pass.
TriggerSkipClears(i) ==
  /\ pc[i] = "idle" /\ running
  /\ AtAwait
  /\ \A j \in Inv : j < i => pc[j] # "idle"
  /\ skips < MaxSkips /\ skips' = skips + 1
  /\ running' = FALSE
  /\ UNCHANGED <<tables, calls, clock, pc, locals, last, touched, exh,
                 snap, rlhist, units, passes, cmds, faults>>

\* Line 178: a trigger that finds the guard set returns at once.
TriggerSkip(i) ==
  /\ pc[i] = "idle" /\ running
  /\ AtAwait
  /\ \A j \in Inv : j < i => pc[j] # "idle"
  /\ skips < MaxSkips /\ skips' = skips + 1
  /\ UNCHANGED <<tables, calls, clock, running, pc, locals, last, touched, exh,
                 snap, rlhist, units, passes, cmds, faults>>

\* ---------------------------------------------------------- fetch_feed
\* Lines 85-86, 90-93: the request succeeds and the body is parsed.
FetchOk(i) ==
  /\ pc[i] = "fetch"
  /\ \E f \in DOMAIN Feeds : feed' = Set(feed, i, f)
  /\ pc' = Set(pc, i, "read")
  /\ snap' = NoSnap
  /\ UNCHANGED <<tables, calls, clock, running, att, sentL, subsL, si, ei,
                 threshold, edt, sat, failed, hist, rlhist, units, passes, cmds, faults>>

\* A variant of line 89 that sleeps the base delay every time.
BackoffFlat(a) == HTTP_BACKOFF

\* Line 89.
Backoff(a) == HTTP_BACKOFF * 2 ^ (a - 1)

\* Lines 87-89: an attempt before the last fails; sleep, then try again.
FetchRetry(i) ==
  /\ pc[i] = "fetch" /\ att[i] # HTTP_RETRIES
  /\ faults < MaxFaults /\ faults' = faults + 1
  /\ Elapse(Backoff(att[i]))
  /\ att' = Set(att, i, att[i] + 1)
  /\ UNCHANGED <<tables, clock, running, pc, feed, sentL, subsL, si, ei,
                 threshold, edt, sat, failed, hist, rlhist, units, passes, cmds>>

\* A variant in which the pass goes on after the last failed attempt, with
\* entries it had from before.
FetchExhaustedGoesOn(i) ==
  /\ pc[i] = "fetch" /\ att[i] = HTTP_RETRIES
  /\ faults < MaxFaults /\ faults' = faults + 1
  /\ feed' = Set(feed, i, 1)
  /\ pc' = Set(pc, i, "read")
  /\ exh' = TRUE
  /\ UNCHANGED <<tables, calls, clock, running, att, sentL, subsL, si, ei,
                 threshold, edt, sat, failed, last, touched, snap, rlhist, units,
                 skips, passes, cmds>>

\* Line 88: the last attempt fails; the error leaves scan_feed_job through
\* its finally.
FetchExhausted(i) ==
  /\ pc[i] = "fetch" /\ att[i] = HTTP_RETRIES
  /\ faults < MaxFaults /\ faults' = faults + 1
  /\ Return(i)
  /\ exh' = TRUE
  /\ UNCHANGED <<tables, calls, clock, last, snap, rlhist, units, skips, passes, cmds>>

\* ------------------------------------------- scan_feed_job: the tables
\* Lines 182-183.
ReadTables(i) ==
  /\ pc[i] = "read"
  /\ sentL' = Set(sentL, i, sent)
  /\ subsL' = Set(subsL, i, subs)
  /\ si' = Set(si, i, 1)
  /\ pc' = Set(pc, i, "sub")
  /\ UNCHANGED <<tables, calls, clock, running, att, feed, ei, threshold, edt,
                 sat, failed, hist, snap, rlhist, units, passes, cmds, faults>>

\* Line 184 with no subscription left, lines 203-204: the pass is over.
PassDone(i) ==
  /\ pc[i] = "sub" /\ si[i] > Len(subsL[i])
  /\ Return(i)
  /\ last' = PassRecord(i, "done")
  /\ UNCHANGED <<tables, calls, clock, exh, snap, rlhist, units, skips, passes, cmds, faults>>

\* Line 185: isoparse reads the stored watermark.
SubBegin(i) ==
  /\ pc[i] = "sub" /\ si[i] <= Len(subsL[i])
  /\ ~IsoParseFails(Row(i).last)
  /\ threshold' = Set(threshold, i, IsoParse(Row(i).last))
  /\ ei' = Set(ei, i, 1)
  /\ pc' = Set(pc, i, "entry")
  /\ UNCHANGED <<tables, calls, clock, running, att, feed, sentL, subsL, si,
                 edt, sat, failed, hist, snap, rlhist, units, passes, cmds, faults>>

\* A variant without the finally: the error leaves the guard set.
ThresholdErrorKeepsGuard(i) ==
  /\ pc[i] = "sub" /\ si[i] <= Len(subsL[i])
  /\ IsoParseFails(Row(i).last)
  /\ pc' = Set(pc, i, "idle")
  /\ last' = PassRecord(i, "error")
  /\ att' = Set(att, i, 0) /\ feed' = Set(feed, i, 0)
  /\ sentL' = Set(sentL, i, {}) /\ subsL' = Set(subsL, i, <<>>)
  /\ si' = Set(si, i, 0) /\ ei' = Set(ei, i, 0)
  /\ threshold' = Set(threshold, i, 0) /\ edt' = Set(edt, i, 0)
  /\ sat' = Set(sat, i, 0) /\ failed' = Set(failed, i, FALSE)
  /\ touched' = {}
  /\ UNCHANGED <<tables, calls, clock, running, exh, snap, rlhist, units, skips,
                 passes, cmds, faults>>

\* Line 185 raising ValueError: nothing catches it before the finally.
ThresholdError(i) ==
  /\ pc[i] = "sub" /\ si[i] <= Len(subsL[i])
  /\ IsoParseFails(Row(i).last)
  /\ Raise(i)

\* ------------------------------------------- scan_feed_job: one entry
\* Line 187.
Matches(e, kw) == kw_match(e.title, kw) \/ kw_match(e.summary, kw)

\* Line 188: e["updated"] or e["published"].
TsOf(e) == IF e.updated.kind # "none" THEN e.updated ELSE e.published

\* Lines 190-191: a text dateutil cannot parse becomes the current time.
ParseTs(ts, t) == IF ts.kind = "at" THEN ts.t ELSE t

\* A variant of line 192 that leaves the watermark out of the test.
SeenNoThreshold(e, cid, thr, sl, t) == <<cid, e.id>> \in sl

\* Line 192: the pair is dropped when the entry is not newer than the
\* watermark or is in the set read at line 182.
Seen(e, cid, thr, sl, t) == ParseTs(TsOf(e), t) <= thr \/ <<cid, e.id>> \in sl

\* Lines 187-192: the pair goes on to summarise.
Eligible(e, cid, kw, thr, sl, t) ==
  /\ Matches(e, kw)
  /\ TsOf(e).kind # "none"
  /\ ~Seen(e, cid, thr, sl, t)

EligibleNow(i) ==
  Eligible(Entry(i), Row(i).cid, Row(i).kw, threshold[i], sentL[i], clock)

\* A reading of the clock at line 191 is later than the ones before it.
ReadClock(i) ==
  clock' = IF TsOf(Entry(i)).kind = "bad" THEN clock + 1 ELSE clock

\* Line 186 with no entry left: on to the next subscription.
EntriesDone(i) ==
  /\ pc[i] = "entry" /\ ei[i] > Len(Entries(i))
  /\ si' = Set(si, i, si[i] + 1)
  /\ pc' = Set(pc, i, "sub")
  /\ UNCHANGED <<tables, calls, clock, running, att, feed, sentL, subsL, ei,
                 threshold, edt, sat, failed, hist, snap, rlhist, units, passes, cmds, faults>>

\* Lines 187, 189, 192: continue.
EntrySkip(i) ==
  /\ pc[i] = "entry" /\ ei[i] <= Len(Entries(i))
  /\ ~EligibleNow(i)
  /\ ei' = Set(ei, i, ei[i] + 1)
  /\ UNCHANGED <<tables, calls, clock, running, pc, att, feed, sentL, subsL, si,
                 threshold, edt, sat, failed, hist, snap, rlhist, units, passes, cmds, faults>>

\* Lines 193, 104-106: the summary is in the cache.
SummariseHit(i) ==
  /\ pc[i] = "entry" /\ ei[i] <= Len(Entries(i))
  /\ EligibleNow(i)
  /\ SnOf(Entry(i).summary) \in DOMAIN cache
  /\ edt' = Set(edt, i, ParseTs(TsOf(Entry(i)), clock))
  /\ ReadClock(i)
  /\ pc' = Set(pc, i, "build")
  /\ UNCHANGED <<tables, calls, running, att, feed, sentL, subsL, si, ei,
                 threshold, sat, failed, hist, snap, rlhist, units, passes, cmds, faults>>

\* Lines 193, 104-107: no cache file; the first attempt begins.
SummariseMiss(i) ==
  /\ pc[i] = "entry" /\ ei[i] <= Len(Entries(i))
  /\ EligibleNow(i)
  /\ SnOf(Entry(i).summary) \notin DOMAIN cache
  /\ edt' = Set(edt, i, ParseTs(TsOf(Entry(i)), clock))
  /\ ReadClock(i)
  /\ sat' = Set(sat, i, 1)
  /\ pc' = Set(pc, i, "rate")
  /\ UNCHANGED <<tables, calls, running, att, feed, sentL, subsL, si, ei,
                 threshold, failed, hist, snap, rlhist, units, passes, cmds, faults>>

\* ---------------------------------------------------------- rate_limit
\* Lines 97-98: the call is recorded (age 0), then entries older than the
\* window are popped from the front.
RECURSIVE RlPop(_)
RlPop(h) == IF h # <<>> /\ Head(h) > WINDOW THEN RlPop(Tail(h)) ELSE h
RlHistory(h) == RlPop(Append(h, 0))

\* A variant of line 99 that holds the caller only above the ceiling.
RlSuspendsAbove(h) == Len(h) > OPENAI_LIMIT

\* Line 99.
RlSuspends(h) == Len(h) >= OPENAI_LIMIT

\* A variant of line 100 that sleeps only to the edge of the window.
RlDelayWindow(h) == WINDOW - h[1]

\* Line 100.
RlDelay(h) == SLEEP_BASE - h[1]

\* The seconds the caller of rate_limit is held, given the history it met.
RlWait(h) == IF RlSuspends(RlHistory(h)) THEN RlDelay(RlHistory(h)) ELSE 0

\* Lines 96-101, called from summarise line 109.
RateLimit(i) ==
  /\ pc[i] = "rate"
  /\ calls' = Aged(RlHistory(calls), RlWait(calls))
  /\ pc' = Set(pc, i, "svc")
  /\ UNCHANGED <<tables, clock, running, att, feed, sentL, subsL, si, ei,
                 threshold, edt, sat, failed, hist, snap, rlhist, units, passes, cmds, faults>>

\* ----------------------------------------------------------- summarise
\* What the service answers; line 111 strips it.
SvcReply == <<" ", "o", "k", "\n">>

\* textwrap.shorten: runs of whitespace become one space and the text is
\* cut to whole words that fit the width with the placeholder " [...]".
SHORTEN_WIDTH == 120
Placeholder == <<" ", "[", ".", ".", ".", "]">>

RECURSIVE Words(_, _)
Words(s, w) ==
  IF s = <<>> THEN (IF w = <<>> THEN <<>> ELSE <<w>>)
  ELSE IF IsSpace(Head(s))
       THEN (IF w = <<>> THEN <<>> ELSE <<w>>) \o Words(Tail(s), <<>>)
       ELSE Words(Tail(s), Append(w, Head(s)))

RECURSIVE Join(_)
Join(ws) ==
  IF ws = <<>> THEN <<>>
  ELSE IF Len(ws) = 1 THEN ws[1]
  ELSE ws[1] \o <<" ">> \o Join(Tail(ws))

RECURSIVE Fit(_)
Fit(ws) ==
  IF ws = <<>> \/ Len(Join(ws)) + Len(Placeholder) <= SHORTEN_WIDTH
  THEN ws
  ELSE Fit(SubSeq(ws, 1, Len(ws) - 1))

Shorten(s) ==
  LET ws == Words(s, <<>>) IN
  IF Len(Join(ws)) <= SHORTEN_WIDTH THEN Join(ws)
  ELSE IF Fit(ws) = <<>> THEN Strip(Placeholder)
  ELSE Join(Fit(ws)) \o Placeholder

\* A variant of line 113 that leaves the marker out.
FallbackNoMarker(sn) == Shorten(sn)

\* Line 113: the marker, then the shortened content.
Marker == <<"!", " ">>
Fallback(sn) == Marker \o Shorten(sn)

Sn(i) == SnOf(Entry(i).summary)

\* Lines 110-111, 115-116: the service answers; the answer is stored.
SvcOk(i) ==
  /\ pc[i] = "svc"
  /\ cache' = Put(cache, Sn(i), Strip(SvcReply))
  /\ pc' = Set(pc, i, "build")
  /\ UNCHANGED <<subs, sent, delivered, calls, clock, running, att, feed,
                 sentL, subsL, si, ei, threshold, edt, sat, failed, hist, snap,
                 rlhist, units, passes, cmds, faults>>

\* Lines 112, 114: an attempt before the last fails; sleep 2*at seconds.
SvcRetry(i) ==
  /\ pc[i] = "svc" /\ sat[i] # OPENAI_RETRIES
  /\ faults < MaxFaults /\ faults' = faults + 1
  /\ Elapse(2 * sat[i])
  /\ sat' = Set(sat, i, sat[i] + 1)
  /\ pc' = Set(pc, i, "rate")
  /\ UNCHANGED <<tables, clock, running, att, feed, sentL, subsL, si, ei,
                 threshold, edt, failed, hist, rlhist, units, passes, cmds>>

\* Lines 112-113, 115-116: the last attempt fails; the fallback is stored.
SvcFallback(i) ==
  /\ pc[i] = "svc" /\ sat[i] = OPENAI_RETRIES
  /\ faults < MaxFaults /\ faults' = faults + 1
  /\ cache' = Put(cache, Sn(i), Fallback(Sn(i)))
  /\ pc' = Set(pc, i, "build")
  /\ UNCHANGED <<subs, sent, delivered, calls, clock, running, att, feed,
                 sentL, subsL, si, ei, threshold, edt, sat, failed, hist, snap,
                 rlhist, units, passes, cmds>>

\* ----------------------------------------------------------- build_msg
\* Line 121: html.escape(e['link']) raises on None.
BuildMsgFails(e) == e.link = None

\* Lines 194-196: the message is built; send_split is awaited.
BuildOk(i) ==
  /\ pc[i] = "build" /\ ~BuildMsgFails(Entry(i))
  /\ pc' = Set(pc, i, "send")
  /\ UNCHANGED <<tables, calls, clock, running, att, feed, sentL, subsL, si, ei,
                 threshold, edt, sat, failed, hist, snap, rlhist, units, passes, cmds, faults>>

\* Line 194 raising: outside the try of line 197, so the pass ends.
BuildError(i) ==
  /\ pc[i] = "build" /\ BuildMsgFails(Entry(i))
  /\ Raise(i)

\* ------------------------------------------- scan_feed_job: dispatch
\* Line 201: UPDATE subs ... WHERE chat_id=? AND keyword=?.
UpdateRows(rows, k, w) ==
  [n \in DOMAIN rows |-> IF Key(rows[n]) = k THEN [rows[n] EXCEPT !.last = w]
                         ELSE rows[n]]

\* A variant that delivers and records nothing.
SendOkNoRecord(i) ==
  /\ pc[i] = "send"
  /\ delivered' = [delivered EXCEPT ![<<Row(i).cid, Entry(i).id>>] = @ + 1]
  /\ ei' = Set(ei, i, ei[i] + 1)
  /\ pc' = Set(pc, i, "entry")
  /\ UNCHANGED <<subs, sent, cache, calls, clock, running, att, feed, sentL,
                 subsL, si, threshold, edt, sat, failed, hist, snap, rlhist, units,
                 passes, cmds, faults>>

\* Lines 198-201: send_split returns; the dedup row is inserted (a row
\* already there raises IntegrityError, which line 200 swallows) and the
\* watermark of the subscription is set to the entry's timestamp.
SendOk(i) ==
  /\ pc[i] = "send"
  /\ delivered' = [delivered EXCEPT ![<<Row(i).cid, Entry(i).id>>] = @ + 1]
  /\ sent' = sent \cup {<<Row(i).cid, Entry(i).id>>}
  /\ subs' = UpdateRows(subs, Key(Row(i)), FormatWatermark(edt[i]))
  /\ ei' = Set(ei, i, ei[i] + 1)
  /\ pc' = Set(pc, i, "entry")
  /\ UNCHANGED <<cache, calls, clock, running, att, feed, sentL, subsL, si,
                 threshold, edt, sat, failed, hist, snap, rlhist, units, passes, cmds, faults>>

\* A variant in which a failed send ends the pass.
SendFailAborts(i) ==
  /\ pc[i] = "send"
  /\ faults < MaxFaults /\ faults' = faults + 1
  /\ Return(i)
  /\ last' = PassRecord(i, "error")
  /\ UNCHANGED <<tables, calls, clock, exh, snap, rlhist, units, skips, passes, cmds>>

\* Lines 198, 202: send_split raises; the error is logged and the loop
\* goes on with the next entry.
SendFail(i) ==
  /\ pc[i] = "send"
  /\ faults < MaxFaults /\ faults' = faults + 1
  /\ failed' = Set(failed, i, TRUE)
  /\ ei' = Set(ei, i, ei[i] + 1)
  /\ pc' = Set(pc, i, "entry")
  /\ UNCHANGED <<tables, calls, clock, running, att, feed, sentL, subsL, si,
                 threshold, edt, sat, hist, snap, rlhist, units, passes, cmds>>

\* ------------------------------------------------------------ commands
\* VALID_KEYWORD: 2 to 30 characters of [A-Za-z0-9_-].
KW_MIN == 2
KW_MAX == 30
ValidKeyword(kw) ==
  /\ Len(kw) >= KW_MIN /\ Len(kw) <= KW_MAX
  /\ \A n \in DOMAIN kw : IsWordChar(kw[n]) \/ kw[n] = "-"

\* parse_keywords, on the segments re.split cut the argument into: each is
\* stripped and lower-cased; empty and invalid ones are left out.
RECURSIVE parse_keywords(_)
parse_keywords(segs) ==
  IF segs = <<>> THEN <<>>
  ELSE LET t == Strip(Head(segs))
           kw == [n \in DOMAIN t |-> Lower(t[n])]
       IN IF kw # <<>> /\ ValidKeyword(kw)
          THEN <<kw>> \o parse_keywords(Tail(segs))
          ELSE parse_keywords(Tail(segs))

\* The arguments a command may carry.
SegRail == <<"R","a","i","l">>
SegShort == <<"r">>
CmdArgs == { <<SegShort, KwRoad, SegRail>> }

\* Line 145: the keywords the chat holds.
KwsOfChat(rows, cid) == {rows[n].kw : n \in {m \in DOMAIN rows : rows[m].cid = cid}}

\* Lines 148-151: the loop over the parsed keywords.  An INSERT of a key
\* that is already stored raises and ends the handler; the rows inserted
\* before it stay.
RECURSIVE SubscribeLoop(_, _, _, _, _)
SubscribeLoop(rows, cid, cur, added, kws) ==
  IF kws = <<>> \/ Cardinality(cur) + added >= MAX_SUBS THEN rows
  ELSE IF Head(kws) \in cur THEN SubscribeLoop(rows, cid, cur, added, Tail(kws))
  ELSE IF <<cid, Head(kws)>> \in KeysOf(rows) THEN rows
  ELSE SubscribeLoop(Append(rows, NewRow(cid, Head(kws))), cid, cur,
                     added + 1, Tail(kws))

\* Lines 143-151.
SubscribeRows(rows, cid, segs) ==
  LET kws == parse_keywords(segs)
      cur == KwsOfChat(rows, cid)
  IN IF kws = <<>> \/ Cardinality(cur) >= MAX_SUBS THEN rows
     ELSE SubscribeLoop(rows, cid, cur, 0, kws)

\* Lines 154-158: one DELETE per parsed keyword.
UnsubscribeRows(rows, cid, segs) ==
  SelectRows(rows, KeysOf(rows) \ {<<cid, kw>> : kw \in Range(parse_keywords(segs))})

\* Line 165: DELETE FROM subs WHERE chat_id=?.
ClearRows(rows, cid) ==
  SelectRows(rows, {k \in KeysOf(rows) : k[1] # cid})

\* A handler runs from its start to its reply without yielding.
Command(rows) ==
  /\ cmds < MaxCmds
  /\ AtAwait
  /\ cmds' = cmds + 1
  /\ subs' = rows
  /\ touched' = IF running
                THEN touched \cup (KeysOf(subs) \ KeysOf(rows))
                             \cup (KeysOf(rows) \ KeysOf(subs))
                ELSE touched
  /\ UNCHANGED <<sent, cache, delivered, calls, clock, running, pc, locals,
                 last, exh, snap, rlhist, units, skips, passes, faults>>

cmd_subscribe(cid, segs) == Command(SubscribeRows(subs, cid, segs))
cmd_unsubscribe(cid, segs) == Command(UnsubscribeRows(subs, cid, segs))
cmd_clear(cid) == Command(ClearRows(subs, cid))

\* ------------------------------------------------------- specification
Step(i) ==
  \/ FetchOk(i) \/ FetchRetry(i) \/ FetchExhausted(i)
  \/ ReadTables(i) \/ PassDone(i) \/ SubBegin(i) \/ ThresholdError(i)
  \/ EntriesDone(i) \/ EntrySkip(i) \/ SummariseHit(i) \/ SummariseMiss(i)
  \/ RateLimit(i) \/ SvcOk(i) \/ SvcRetry(i) \/ SvcFallback(i)
  \/ BuildOk(i) \/ BuildError(i) \/ SendOk(i) \/ SendFail(i)

Next ==
  \/ \E i \in Inv : Trigger(i) \/ TriggerSkip(i) \/ Step(i)
  \/ \E cid \in Chats, segs \in CmdArgs :
        cmd_subscribe(cid, segs) \/ cmd_unsubscribe(cid, segs)
  \/ \E cid \in Chats : cmd_clear(cid)

Spec == Init /\ [][Next]_vars

\* The job on its own, with the steps of a pass taken as long as one is
\* there to take: the event loop resumes a coroutine whose await has
\* completed.  The command handlers are left out: they write neither the
\* guard nor anything a pass holds once it has read the tables.
PassNext == \E i \in Inv : Trigger(i) \/ TriggerSkip(i) \/ Step(i)
FairSpec == Init /\ [][PassNext]_vars /\ WF_vars(\E i \in Inv : Step(i))

\* ------------------------------------- the rate limiter on its own
\* summarise calls rate_limit, then the service, then - g seconds after
\* the call went on - rate_limit again.  The history keeps, for every
\* request, the gap before it and the seconds it was held, and the ages
\* of the moments at which the calls went on.
Gaps == {0, 1, 2, 59, 60, 61}

RlRequest(g) ==
  /\ Len(reqlog) < MaxReq
  /\ calls' = Aged(RlHistory(Aged(calls, g)), RlWait(Aged(calls, g)))
  /\ reqlog' = Append(reqlog, [gap |-> g, wait |-> RlWait(Aged(calls, g))])
  /\ proc' = Append(Aged(proc, g + RlWait(Aged(calls, g))), 0)
  /\ UNCHANGED <<tables, clock, running, pc, locals, last, touched, exh, skips,
                 snap, units, passes, cmds, faults>>

InitRL == Init /\ subs = <<>>
NextRL == \E g \in Gaps : RlRequest(g)
SpecRL == InitRL /\ [][NextRL]_vars

\* ------------------------------------------ summarise on its own
\* Line 106: f.read() of a file opened in text mode reads "\r\n" and a
\* lone "\r" as "\n".  (Line 115 writes on a system whose line separator
\* is "\n", so the file holds the text as given.)
RECURSIVE ReadText(_)
ReadText(s) ==
  IF s = <<>> THEN <<>>
  ELSE IF Head(s) = "\r"
       THEN <<"\n">> \o ReadText(IF Len(s) > 1 /\ s[2] = "\n"
                                 THEN Tail(Tail(s)) ELSE Tail(s))
       ELSE <<Head(s)>> \o ReadText(Tail(s))

\* The contents handed to summarise, what the service may answer, and the
\* number of attempts that fail before one succeeds (OPENAI_RETRIES:
\* every attempt fails).
SumRaws == {TxtRailOnly, <<"R","A","I","L",".">>, TxtPlain}
SumReplies == {SvcReply, <<"a", "\r", "b">>}
SumFails == 0..OPENAI_RETRIES

\* Lines 107-114: the attempts made when the first f fail.
Attempts(f) == IF f >= OPENAI_RETRIES THEN OPENAI_RETRIES ELSE f + 1

\* Lines 109, 114: the history after attempts at..n, each going through
\* rate_limit, with the sleep of 2*at seconds after a failed one.
RECURSIVE SumCalls(_, _, _)
SumCalls(h, at, n) ==
  IF at > n THEN h
  ELSE IF at = n THEN Aged(RlHistory(h), RlWait(h))
  ELSE SumCalls(Aged(Aged(RlHistory(h), RlWait(h)), 2 * at), at + 1, n)

\* Lines 111, 113: the summary a call that misses the cache ends with.
SumResult(sn, f, reply) ==
  IF f >= OPENAI_RETRIES THEN Fallback(sn) ELSE Strip(reply)

\* Lines 103-116, from the call to the return.
summarise(raw, f, reply) ==
  /\ Len(sumlog) < MaxSum
  /\ IF SnOf(raw) \in DOMAIN cache
     THEN /\ sumlog' = Append(sumlog,
                [sn |-> SnOf(raw), hit |-> TRUE, fails |-> 0,
                 ret |-> ReadText(cache[SnOf(raw)]), svc |-> 0, adm |-> 0,
                 file |-> cache[SnOf(raw)]])
          /\ UNCHANGED <<cache, calls>>
     ELSE /\ cache' = Put(cache, SnOf(raw), SumResult(SnOf(raw), f, reply))
          /\ calls' = SumCalls(calls, 1, Attempts(f))
          /\ sumlog' = Append(sumlog,
                [sn |-> SnOf(raw), hit |-> FALSE, fails |-> f,
                 ret |-> SumResult(SnOf(raw), f, reply),
                 svc |-> Attempts(f), adm |-> Attempts(f),
                 file |-> SumResult(SnOf(raw), f, reply)])
  /\ UNCHANGED <<subs, sent, delivered, clock, running, pc, locals, last,
                 touched, exh, skips, snap, rlhist, regex_cache, mcall, smsg,
                 stxt, sparts, spc, passes, cmds, faults>>

InitSum == Init /\ subs = <<>>
NextSum == \E raw \in SumRaws, f \in SumFails, reply \in SumReplies :
             summarise(raw, f, reply)
SpecSum == InitSum /\ [][NextSum]_vars

\* ----------------------------------------- split_html on its own
\* The characters of the messages: a line feed (which is whitespace), and
\* the two characters of "<p".
MsgChars == {"\n", "<", "p"}

\* txt.rfind(a + b, 0, end): the last index (from 0) at which the two
\* characters stand within the first end characters, or -1.
RFind(txt, a, b, end) ==
  LET ps == {q \in 0..(end - 2) : txt[q + 1] = a /\ txt[q + 2] = b}
  IN IF ps = {} THEN -1 ELSE CHOOSE q \in ps : \A r \in ps : r <= q

\* A variant of line 128 that cuts one character further when it finds
\* no place to cut.
SplitCutOver(txt) ==
  LET n == RFind(txt, "\n", "\n", MSG_MAX)
      h == RFind(txt, "<", "p", MSG_MAX)
      c == IF n > h THEN n ELSE h
  IN IF c <= 0 THEN MSG_MAX + 1 ELSE c

\* Lines 127-128.
SplitCut(txt) ==
  LET n == RFind(txt, "\n", "\n", MSG_MAX)
      h == RFind(txt, "<", "p", MSG_MAX)
      c == IF n > h THEN n ELSE h
  IN IF c <= 0 THEN MSG_MAX ELSE c

SplitUnchanged ==
  UNCHANGED <<tables, calls, clock, running, pc, locals, last, touched, exh,
              skips, snap, rlhist, sumlog, regex_cache, mcall, passes, cmds,
              faults>>

\* The caller puts the message together.
SplitType(c) ==
  /\ spc = "in" /\ Len(smsg) < MaxMsg
  /\ smsg' = Append(smsg, c)
  /\ UNCHANGED <<stxt, sparts, spc>>
  /\ SplitUnchanged

\* Lines 124-125: a message that fits is returned whole.
SplitCall ==
  /\ spc = "in"
  /\ IF Len(smsg) <= MSG_MAX
     THEN sparts' = <<smsg>> /\ spc' = "done" /\ stxt' = stxt
     ELSE sparts' = <<>> /\ spc' = "loop" /\ stxt' = smsg
  /\ UNCHANGED smsg
  /\ SplitUnchanged

\* Lines 126-129: one turn of the loop.
SplitStep ==
  /\ spc = "loop" /\ Len(stxt) > MSG_MAX
  /\ sparts' = Append(sparts, SubSeq(stxt, 1, SplitCut(stxt)))
  /\ stxt' = LStrip(SubSeq(stxt, SplitCut(stxt) + 1, Len(stxt)))
  /\ UNCHANGED <<smsg, spc>>
  /\ SplitUnchanged

\* Lines 126, 130: the loop ends and the rest is the last chunk.
SplitEnd ==
  /\ spc = "loop" /\ Len(stxt) <= MSG_MAX
  /\ sparts' = Append(sparts, stxt)
  /\ spc' = "done"
  /\ UNCHANGED <<smsg, stxt>>
  /\ SplitUnchanged

InitSplit == Init /\ subs = <<>>
NextSplit == (\E c \in MsgChars : SplitType(c)) \/ SplitCall \/ SplitStep \/ SplitEnd
\* A call that has begun is run to its return.
SpecSplit == InitSplit /\ [][NextSplit]_vars /\ WF_vars(SplitStep \/ SplitEnd)

\* ------------------------------------------- kw_match on its own
\* BOUND(k): the compiled pattern, kept as the literal it was compiled
\* from and its flag.
BOUND(k) == [lit |-> k, ignorecase |-> TRUE]
\* pat.search(txt)
Search(pat, txt) == kw_match(txt, pat.lit)

\* The keywords matched, and the texts they are matched against: an
\* occurrence (or none) with a character or nothing on either side.  "é"
\* is a letter outside the class [A-Za-z0-9_].
MatchKws == {<<"c","a","f">>, <<"c","a">>}
MatchBodies == {<<"c","a","f">>, <<"C","a","F">>, <<"c","o","f">>}
MatchSides == {<<>>, <<" ">>, <<"Z">>, <<"7">>, <<"_">>, <<"-">>, <<"é">>}
MatchTxts == {l \o b \o r : l \in MatchSides, b \in MatchBodies, r \in MatchSides}

MatchUnchanged ==
  UNCHANGED <<tables, calls, clock, running, pc, locals, last, touched, exh,
              skips, snap, rlhist, sumlog, smsg, stxt, sparts, spc, passes,
              cmds, faults>>

\* Lines 78, 80: the pattern is in the cache.
MatchCached(txt, kw) ==
  /\ kw \in DOMAIN regex_cache
  /\ mcall' = [txt |-> txt, kw |-> kw, hit |-> TRUE,
               res |-> Search(regex_cache[kw], txt)]
  /\ UNCHANGED regex_cache
  /\ MatchUnchanged

\* Lines 78-80: the pattern is compiled and kept.
MatchCompiled(txt, kw) ==
  /\ kw \notin DOMAIN regex_cache
  /\ regex_cache' = Put(regex_cache, kw, BOUND(kw))
  /\ mcall' = [txt |-> txt, kw |-> kw, hit |-> FALSE,
               res |-> Search(BOUND(kw), txt)]
  /\ MatchUnchanged

InitMatch == Init /\ subs = <<>>
NextMatch ==
  \E txt \in MatchTxts, kw \in MatchKws :
    MatchCached(txt, kw) \/ MatchCompiled(txt, kw)
SpecMatch == InitMatch /\ [][NextMatch]_vars

\* ============================================================ properties

\* C1: for every (chat, entry) pair at most one notification is ever
\* delivered, whatever the subscriptions, the feed and the watermarks.
C1AtMostOnce == \A p \in Pairs : delivered[p] <= 1

\* C2: at most one invocation of scan_feed_job is past the entry guard at
\* any moment, and a trigger that finds a pass running changes nothing:
\* no fetch, no delivery, no write, and the guard stays set.
C2NoOverlap == Cardinality({i \in Inv : pc[i] # "idle"}) <= 1
C2SkipIsNoOp ==
  skips' # skips =>
    /\ running /\ running'
    /\ UNCHANGED <<tables, calls, clock, pc, locals, last, touched, exh, snap,
                   rlhist, units, passes, cmds, faults>>
C2SingleFlight == [](C2NoOverlap) /\ [][C2SkipIsNoOp]_vars
\* A trigger was dropped while a pass was waiting on a send.
C2Witness == skips > 0 /\ running /\ \E i \in Inv : pc[i] = "send"

\* C3: the guard is set only while an invocation is in progress, and every
\* pass that sets it clears it again, however the pass ends.
C3GuardCleared ==
  /\ [](running => \E i \in Inv : pc[i] # "idle")
  /\ running ~> ~running
\* The guard is clear after a pass ended by an error and the next one by
\* the failure of every fetch attempt.
C3Witness == ~running /\ last.end = "error" /\ exh

\* C4 (as stated): a pass over the feed and the subscriptions of the pass
\* before it delivers nothing.
C4AfterPass(i) == last.feed = feed[i] /\ last.keys = KeysOf(subsL[i])
C4Delivers(i) == pc[i] = "send" /\ delivered' # delivered
C5Kept(i, n) ==
  /\ Key(subsL[i][n]) \notin touched
  /\ Key(subsL[i][n]) \in KeysOf(subs)
C5Now(i, n) == IsoParse(RowOf(subs, Key(subsL[i][n])).last)
C5NeverDecreases ==
  \A i \in Inv : \A n \in DOMAIN subsL[i] :
    C5Kept(i, n) => C5Now(i, n) >= IsoParse(subsL[i][n].last)
\* A pass has moved the watermark of a subscription forward.
C5Witness ==
  \E i \in Inv : \E n \in DOMAIN subsL[i] :
    C5Kept(i, n) /\ C5Now(i, n) > IsoParse(subsL[i][n].last)

\* C6: from the start of a pass, through failed fetch attempts, to the
\* end of a pass whose fetch failed on every attempt, nothing is written:
\* the dedup rows, the cache, the rate limiter's history, the deliveries
\* and every watermark are as the pass found them (a row a command has
\* inserted since holds the epoch text).
C6WatermarksKept ==
  \A k \in KeysOf(subs) \cap KeysOf(snap.subs) :
    RowOf(subs, k).last \in {RowOf(snap.subs, k).last, EpochText}
C6NoMutation ==
  (exh \/ \E i \in Inv : pc[i] = "fetch") =>
    /\ sent = snap.sent /\ cache = snap.cache /\ calls = snap.calls
    /\ delivered = snap.delivered
    /\ C6WatermarksKept
\* A pass has ended on the last failed attempt, with rows, cache files and
\* rate-limiter entries of an earlier pass in place.
C6Witness ==
  /\ exh /\ ~running
  /\ sent # {} /\ cache # <<>> /\ calls # <<>>
  /\ \E n \in DOMAIN subs : subs[n].last # EpochText

\* C7: a send that fails is followed by the next entry of the same
\* subscription; it inserts no dedup row, moves no watermark, and leaves
\* what decides the other pairs (the entries, the rows and the dedup set
\* the pass read, the threshold) as it was.
C7FailedSend(i) == pc[i] = "send" /\ pc'[i] # "send" /\ delivered' = delivered
C7Isolated ==
  [][\A i \in Inv : C7FailedSend(i) =>
       /\ pc'[i] = "entry" /\ ei'[i] = ei[i] + 1 /\ si'[i] = si[i]
       /\ running'
       /\ sent' = sent /\ subs' = subs
       /\ feed'[i] = feed[i] /\ subsL'[i] = subsL[i] /\ sentL'[i] = sentL[i]
       /\ threshold'[i] = threshold[i]]_vars
\* The send of a subscription's first entry failed (no dedup row for it)
\* and the send of its second entry was made and recorded.
C7Witness ==
  \E i \in Inv :
    /\ failed[i] /\ pc[i] = "entry" /\ ei[i] = 3
    /\ <<Row(i).cid, Entries(i)[1].id>> \notin sent
    /\ <<Row(i).cid, Entries(i)[2].id>> \in sent \ sentL[i]

\* C8: a pass that has fetched its entries ends only at the end of both
\* loops.
C8OnlyFetchAborts == last.end # "error"

\* C9: at every moment the calls that went on past rate_limit within the
\* last WINDOW seconds are at most OPENAI_LIMIT.
C9InWindow == Cardinality({n \in DOMAIN proc : proc[n] <= WINDOW})
C9WindowBound == C9InWindow <= OPENAI_LIMIT
\* Calls were held, and the window is as full as the limiter lets it get.
C9Witness ==
  /\ Len(reqlog) > OPENAI_LIMIT
  /\ \E n \in DOMAIN reqlog : reqlog[n].wait > 0
  /\ C9InWindow = OPENAI_LIMIT

\* C10 (as stated): of OPENAI_LIMIT + 1 requests made at once on an empty
\* history the first OPENAI_LIMIT are not held and the last one is.
Burst(n) == Len(reqlog) >= n /\ \A k \in 1..n : reqlog[k].gap = 0
C10Original ==
  Burst(OPENAI_LIMIT + 1) =>
    /\ \A k \in 1..OPENAI_LIMIT : reqlog[k].wait = 0
    /\ reqlog[OPENAI_LIMIT + 1].wait > 0
\* C10 (amended): of the requests made at once on an empty history the
\* first OPENAI_LIMIT - 1 are not held; request OPENAI_LIMIT is held for
\* SLEEP_BASE seconds, by which time the first request is out of the
\* window; the request made when it goes on is not held.
C10Amended ==
  /\ Burst(OPENAI_LIMIT) =>
       /\ \A k \in 1..(OPENAI_LIMIT - 1) : reqlog[k].wait = 0
       /\ reqlog[OPENAI_LIMIT].wait = SLEEP_BASE
       /\ SLEEP_BASE > WINDOW
  /\ Burst(OPENAI_LIMIT + 1) => reqlog[OPENAI_LIMIT + 1].wait = 0
C10Witness == Burst(OPENAI_LIMIT + 1)

\* C11: a summarise call whose content key an earlier call had returns the
\* text that call stored, asks neither the rate limiter nor the service,
\* and leaves the file as it is; so the service is asked by at most one
\* call per key.
C11Earlier(n) == {m \in 1..(n - 1) : sumlog[m].sn = sumlog[n].sn}
C11CacheDeterminism ==
  \A n \in DOMAIN sumlog :
    C11Earlier(n) # {} =>
      /\ \A m \in C11Earlier(n) : sumlog[n].ret = sumlog[m].file
      /\ sumlog[n].svc = 0 /\ sumlog[n].adm = 0
      /\ cache[sumlog[n].sn] = sumlog[n].file

\* C12: a call for which every attempt fails returns the marker followed
\* by an excerpt of at most SHORTEN_WIDTH characters, after OPENAI_RETRIES
\* service calls; the cache holds that text under the key, and every later
\* call for the key returns it with no service call.
C12IsFallback(t) ==
  /\ Len(t) >= Len(Marker) /\ SubSeq(t, 1, Len(Marker)) = Marker
  /\ Len(t) <= Len(Marker) + SHORTEN_WIDTH
C12Degrades ==
  \A n \in DOMAIN sumlog :
    (~sumlog[n].hit /\ sumlog[n].fails = OPENAI_RETRIES) =>
      /\ C12IsFallback(sumlog[n].ret)
      /\ sumlog[n].svc = OPENAI_RETRIES
      /\ cache[sumlog[n].sn] = sumlog[n].ret
      /\ \A m \in (n + 1)..Len(sumlog) :
           sumlog[m].sn = sumlog[n].sn =>
             sumlog[m].ret = sumlog[n].ret /\ sumlog[m].svc = 0
\* Every attempt failed for a content, and a later call asked for it.
C12Witness ==
  \E n \in DOMAIN sumlog : \E m \in (n + 1)..Len(sumlog) :
    /\ ~sumlog[n].hit /\ sumlog[n].fails = OPENAI_RETRIES
    /\ sumlog[m].sn = sumlog[n].sn /\ sumlog[m].hit

\* C13: a keyword-matching entry whose timestamp is missing or cannot be
\* parsed is passed over only when the chat has a dedup row for it.
C13PassedOver(i) ==
  /\ pc[i] = "entry" /\ ei[i] <= Len(Entries(i))
  /\ pc'[i] = "entry" /\ ei'[i] = ei[i] + 1
C13NotDropped ==
  [][\A i \in Inv :
       (/\ C13PassedOver(i)
        /\ Matches(Entry(i), Row(i).kw)
        /\ TsOf(Entry(i)).kind # "at")
       => <<Row(i).cid, Entry(i).id>> \in sentL[i]]_vars

\* C14: a successful dispatch adds one delivery and the dedup row of the
\* pair, and leaves as the subscription's watermark a text that reads as
\* the timestamp of the entry delivered.
C14Dispatched(i) == pc[i] = "send" /\ delivered' # delivered
C14Pair(i) == <<Row(i).cid, Entry(i).id>>
C14Stored(i) == RowOf(subs', Key(Row(i))).last
C14WatermarkIsTimestamp ==
  [][\A i \in Inv :
       C14Dispatched(i) =>
         /\ delivered'[C14Pair(i)] = delivered[C14Pair(i)] + 1
         /\ C14Pair(i) \in sent'
         /\ Key(Row(i)) \in KeysOf(subs') =>
              /\ ~IsoParseFails(C14Stored(i))
              /\ IsoParse(C14Stored(i)) = ParseTs(TsOf(Entry(i)), edt[i])]_vars

\* C17: no write of a pass puts a watermark earlier than the one it
\* replaces.
C17Written(k) == RowOf(subs', k).last # RowOf(subs, k).last
C17MonotoneWrites ==
  [][\A i \in Inv : \A k \in KeysOf(subs) \cap KeysOf(subs') :
       (pc[i] = "send" /\ delivered' # delivered /\ C17Written(k)) =>
         RowOf(subs', k).last.t >= RowOf(subs, k).last.t]_vars

\* C18: the watermark a pass finds for a subscription is a text isoparse
\* reads, so the pass goes on with that subscription.
C18Readable ==
  \A i \in Inv :
    (pc[i] = "sub" /\ si[i] <= Len(subsL[i])) => ~IsoParseFails(Row(i).last)

\* C20: a pass delivers for keyword k to chat c only while the row (c, k)
\* is in the table.
C20OnlySubscribed ==
  [][\A i \in Inv :
       (pc[i] = "send" /\ delivered' # delivered) =>
         Key(Row(i)) \in KeysOf(subs)]_vars

\* C19: a call of fetch_feed is never past attempt HTTP_RETRIES; after the
\* k-th failed attempt but the last it sleeps HTTP_BACKOFF seconds doubled
\* k-1 times and tries again; a failure of attempt HTTP_RETRIES raises
\* without a sleep, and the call raises in no other case.
RECURSIVE C19Wait(_)
C19Wait(k) == IF k = 1 THEN HTTP_BACKOFF ELSE 2 * C19Wait(k - 1)
C19Failed(i) == pc[i] = "fetch" /\ faults' # faults
C19Raised(i) == pc[i] = "fetch" /\ pc'[i] = "idle"
C19Step(i) ==
  /\ (C19Failed(i) /\ att[i] < HTTP_RETRIES) =>
        /\ pc'[i] = "fetch" /\ att'[i] = att[i] + 1
        /\ calls' = Aged(calls, C19Wait(att[i]))
  /\ (C19Failed(i) /\ att[i] >= HTTP_RETRIES) => C19Raised(i)
  /\ C19Raised(i) =>
        /\ C19Failed(i) /\ att[i] = HTTP_RETRIES
        /\ exh' /\ calls' = calls
  /\ (pc[i] = "fetch" /\ pc'[i] = "read") => att'[i] = att[i]
C19Attempts ==
  /\ [](\A i \in Inv : att[i] <= HTTP_RETRIES)
  /\ [][\A i \in Inv : C19Step(i)]_vars
\* The last attempt is under way after sleeps of 2 and 4 seconds, which
\* an entry of the rate limiter's history made before them shows.
C19Witness ==
  \E i \in Inv :
    /\ pc[i] = "fetch" /\ att[i] = HTTP_RETRIES
    /\ calls # <<>> /\ calls[Len(calls)] = 6

\* C15: split_html, given a message longer than MSG_MAX, returns; every
\* chunk it returns has at most MSG_MAX characters; and the message is
\* the chunks in order, with nothing but whitespace between the end of
\* one chunk and the start of the next.
RECURSIVE C15Rejoins(_, _)
C15Rejoins(txt, parts) ==
  IF Len(parts) = 1 THEN txt = parts[1]
  ELSE /\ Len(txt) >= Len(parts[1])
       /\ SubSeq(txt, 1, Len(parts[1])) = parts[1]
       /\ \E j \in 0..(Len(txt) - Len(parts[1])) :
            /\ \A q \in 1..j : IsSpace(txt[Len(parts[1]) + q])
            /\ C15Rejoins(SubSeq(txt, Len(parts[1]) + j + 1, Len(txt)),
                          Tail(parts))
C15Returned == spc = "done" /\ Len(smsg) > MSG_MAX
C15Chunks ==
  C15Returned =>
    /\ sparts # <<>>
    /\ \A n \in DOMAIN sparts : Len(sparts[n]) <= MSG_MAX
    /\ C15Rejoins(smsg, sparts)
C15Split == [](C15Chunks) /\ (spc = "loop" ~> spc = "done")
\* A message was cut into three chunks, whitespace being dropped between
\* two of them.
C15Witness ==
  /\ C15Returned /\ Len(sparts) = 3
  /\ Len(sparts[1]) + Len(sparts[2]) + Len(sparts[3]) < Len(smsg)

\* C16: kw_match(t, k) is true exactly when t holds an occurrence of k,
\* compared without regard to case, with no letter, digit or underscore
\* immediately before it or after it; an occurrence inside a longer token
\* never matches; and a cached pattern gives the result a compiled one
\* gives.
C16TokenChar(c) == IsWordChar(c) \/ c = "é"
C16Occurs(t, k, p) ==
  /\ p + Len(k) - 1 <= Len(t)
  /\ \A n \in 1..Len(k) : Lower(t[p + n - 1]) = Lower(k[n])
C16Free(t, k, p) ==
  /\ p > 1 => ~C16TokenChar(t[p - 1])
  /\ p + Len(k) <= Len(t) => ~C16TokenChar(t[p + Len(k)])
C16Called == mcall # NoCall
\* The cached pattern and the compiled one agree.
C16CacheSame == C16Called => mcall.res = Search(BOUND(mcall.kw), mcall.txt)
C16WholeWord ==
  C16Called =>
    (mcall.res <=> \E p \in 1..Len(mcall.txt) :
                     C16Occurs(mcall.txt, mcall.kw, p) /\ C16Free(mcall.txt, mcall.kw, p))

====
